---- MODULE Spec2Model ----
(***************************************************************************)
(* Model of the KVL store of src/index.ts: one SQLite table `kvl` with     *)
(* rows (id, key, value, labels, createTime, updateTime), driven by the    *)
(* public methods set/get/push/pop/shift/all/tags/expire.                  *)
(*                                                                         *)
(* Strings that the SQL compares character by character (keys, list names, *)
(* labels) are tuples of one-character strings; values are opaque strings. *)
(* Every public method is synchronous (better-sqlite3), so one method call *)
(* is one action.  The timer of the constructor calls expire() between     *)
(* method calls.  `now` is the last value Date.now() returned; a method    *)
(* that reads the clock sees `now` or a later instant.                     *)
(***************************************************************************)
EXTENDS Integers, Sequences, FiniteSets, TLC

\* ---------------------------------------------------------------- bounds
MaxInserts == 2
MaxListInserts == 3
MaxTime == 1

\* ---------------------------------------------------------------- inputs
Values == {"v", "w"}
Undefined == "undefined"
Null == <<"NULL">>
Absent == -1

Names == { <<"a">> }
ListNames == { <<"a">>, <<"A">>, <<"_">>, <<"a", ":", "b">> }
PlainKeys == { <<"k">> }
TagInputs == { <<"x">> }
AllTagInputs == { <<>>, <<"x">> }
ExpireInputs == { Absent, 0, 1 }
OrderNames == { <<"a">>, <<"_">> }
PageNumInputs == { -1, 0, 1, 2, 3 }
PageSizeInputs == { 1, 2 }
PageTagInputs == { <<>>, << <<"x">> >>, << <<"x">>, <<>> >> }
OperatorInputs == { "AND", "OR" }

Hex == <<"0", "1", "2", "3">>

\* what Date.now() can return after it returned t
Clock(t) == { u \in t..(t + 1) : u <= MaxTime }

VARIABLES
  db,            \* the rows of table kvl
  nextId,        \* the id the next insert gets
  now,           \* the last clock reading
  expireTimeMs,  \* the constructor argument, Absent when not supplied
  last,          \* history: the last call, its arguments and its result
  model,         \* history: per list name, the values pushed and not yet removed
  track,         \* history: which calls have run since construction
  calls          \* per caller, the call in progress when calls run statement by statement

vars == <<db, nextId, now, expireTimeMs, last, model, track, calls>>


\* ------------------------------------------------------- string helpers
StartsWith(s, p) == Len(s) >= Len(p) /\ SubSeq(s, 1, Len(p)) = p

\* SQLite folds the case of ASCII letters when LIKE compares two characters.
Fold(c) == IF c = "A" THEN "a" ELSE IF c = "B" THEN "b" ELSE IF c = "K" THEN "k" ELSE c

\* SQLite's LIKE without ESCAPE: % is any run of characters, _ is any one
\* character, every other character matches itself up to ASCII case.
RECURSIVE Like(_, _)
Like(pat, str) ==
  IF pat = <<>> THEN str = <<>>
  ELSE IF Head(pat) = "%" THEN Like(Tail(pat), str) \/ (str # <<>> /\ Like(pat, Tail(str)))
  ELSE IF str = <<>> THEN FALSE
  ELSE IF Head(pat) = "_" THEN Like(Tail(pat), Tail(str))
  ELSE Fold(Head(pat)) = Fold(Head(str)) /\ Like(Tail(pat), Tail(str))

\* the bound pattern `? || ':%'`
ListPattern(name) == name \o <<":", "%">>

\* WHERE key LIKE ? || ':%'
Members(rows, name) == { r \in rows : Like(ListPattern(name), r.key) }

\* crypto.randomUUID(): a token never generated before
Uuid(n) == << Hex[((n \div 4) % 4) + 1], Hex[(n % 4) + 1] >>

\* `${name}:${crypto.randomUUID()}`
PushKey(name, n) == name \o <<":">> \o Uuid(n)

\* --------------------------------------------------------- SQL statements
Row(id, key, value, labels, ct, ut) ==
  [id |-> id, key |-> key, value |-> value, labels |-> labels, createTime |-> ct, updateTime |-> ut]

HasKey(rows, key) == \E r \in rows : r.key = key

\* schema: key is UNIQUE, so an insert of a key the table holds conflicts
KeyConflict(rows, key) == HasKey(rows, key)

\* schema: labels is nullable and has no default
DefaultLabels == Null

\* INSERT OR REPLACE: a row of the same key is dropped and a new one written
InsertOrReplace(rows, id, time, key, value) ==
  { r \in rows : r.key # key } \cup { Row(id, key, value, DefaultLabels, time, time) }

\* INSERT OR IGNORE INTO kvl (createTime, updateTime, key, value) VALUES (?, ?, ?, ?)
InsertOrIgnore(rows, id, time, key, value) ==
  IF KeyConflict(rows, key) THEN rows
  ELSE rows \cup { Row(id, key, value, DefaultLabels, time, time) }

\* an UPDATE that also rewrites createTime
UpdateValueAndCreateTime(rows, value, time, key) ==
  { IF r.key = key THEN [r EXCEPT !.value = value, !.updateTime = time, !.createTime = time]
    ELSE r : r \in rows }

\* UPDATE kvl SET value = ?, updateTime = ? WHERE key = ?
UpdateValue(rows, value, time, key) ==
  { IF r.key = key THEN [r EXCEPT !.value = value, !.updateTime = time] ELSE r : r \in rows }

\* set() without its UPDATE statement
SetRowsInsertOnly(rows, id, time, key, value) ==
  InsertOrIgnore(rows, id, time, key, value)

\* the two statements of set(), in order
SetRows(rows, id, time, key, value) ==
  UpdateValue(InsertOrIgnore(rows, id, time, key, value), value, time, key)

\* schema: id is AUTOINCREMENT; an id is consumed only by an insert that takes effect
IdAfterSet(rows, id, key) == IF KeyConflict(rows, key) THEN id ELSE id + 1

\* the SELECT of get() without its WHERE clause
GetValueAnyRow(rows, key) ==
  IF rows = {} THEN Undefined ELSE (CHOOSE r \in rows : TRUE).value

\* SELECT value FROM kvl WHERE key = ?   (item?.value)
GetValue(rows, key) ==
  IF HasKey(rows, key) THEN (CHOOSE r \in rows : r.key = key).value ELSE Undefined

NoRow == Row(0, <<>>, Undefined, Null, 0, 0)

\* ORDER BY id ASC where pop orders by id DESC
PopSelectOldest(rows, name) ==
  LET m == Members(rows, name)
  IN IF m = {} THEN NoRow ELSE CHOOSE r \in m : \A q \in m : q.id >= r.id

\* SELECT value, id ... ORDER BY id DESC LIMIT 1
PopSelect(rows, name) ==
  LET m == Members(rows, name)
  IN IF m = {} THEN NoRow ELSE CHOOSE r \in m : \A q \in m : q.id <= r.id

\* SELECT value, id ... ORDER BY id ASC LIMIT 1
ShiftSelect(rows, name) ==
  LET m == Members(rows, name)
  IN IF m = {} THEN NoRow ELSE CHOOSE r \in m : \A q \in m : q.id >= r.id

\* if (item?.id) DELETE FROM kvl WHERE id = ?
DeleteById(rows, item) ==
  IF item.id # 0 THEN { r \in rows : r.id # item.id } ELSE rows

\* the UPDATE of tags() without its WHERE clause
UpdateLabelsEveryRow(rows, tags, time, key) ==
  { [r EXCEPT !.labels = tags, !.updateTime = time] : r \in rows }

\* UPDATE kvl SET labels = ?, updateTime = ? WHERE key = ?
UpdateLabels(rows, tags, time, key) ==
  { IF r.key = key THEN [r EXCEPT !.labels = tags, !.updateTime = time] ELSE r : r \in rows }

\* result.changes of that UPDATE
LabelsChanges(rows, key) == Cardinality({ r \in rows : r.key = key })

\* SELECT labels FROM kvl WHERE key = ?   (item.labels)
GetLabels(rows, key) == (CHOOSE r \in rows : r.key = key).labels

\* if (!item) throw Error('item does not exist')
GetLabelsThrows(rows, key) == ~HasKey(rows, key)

\* if (result.changes < 1) throw Error('item does not exist')
SetLabelsThrows(rows, key) == LabelsChanges(rows, key) < 1

\* if (!this.expireTimeMs) return
ExpireDisabled(e) == e = Absent \/ e = 0

\* a DELETE with < where expire has <=
ExpireRowsStrict(rows, e, time) ==
  IF ExpireDisabled(e) THEN rows ELSE { r \in rows : ~(r.updateTime < time - e) }

\* DELETE FROM kvl WHERE updateTime <= Date.now() - expireTimeMs
ExpireRows(rows, e, time) ==
  IF ExpireDisabled(e) THEN rows ELSE { r \in rows : ~(r.updateTime <= time - e) }

\* ------------------------------------------------------------------- all
\* SELECT createTime, updateTime, key, value
AllColumns(r) ==
  [createTime |-> r.createTime, updateTime |-> r.updateTime, key |-> r.key, value |-> r.value]

\* ... WHERE key LIKE ? || ':%' ORDER BY createTime DESC: every order of the
\* members that is descending in createTime (SQL leaves the order of rows with
\* equal createTime open)
AllResults(rows, name) ==
  LET m == Members(rows, name)
      n == Cardinality(m)
      orders == { f \in [1..n -> m] :
                    /\ \A i \in 1..n : \A j \in 1..n : i # j => f[i] # f[j]
                    /\ \A i \in 1..n : \A j \in 1..n : i < j => f[i].createTime >= f[j].createTime }
  IN { [i \in 1..n |-> AllColumns(f[i])] : f \in orders }

\* ------------------------------------------------------------------ page
\* totalStmt.get(name) binds one value, and the statement has one placeholder
\* for the name and one more for every tag: with a tag the call throws
\* (RangeError: too few parameter values)
PagePlaceholders(tags) == 1 + Len(tags)

PageThrows(tags) == PagePlaceholders(tags) # 1

\* SELECT COUNT(1) as total FROM kvl WHERE key LIKE ? || ':%' AND (1 = 1)
PageTotal(rows, name) == Cardinality(Members(rows, name))

\* const lastOffset = total > 0 ? total - 1 : 0
LastOffset(total) == IF total > 0 THEN total - 1 ELSE 0

\* const pages = Math.floor(lastOffset / pageSize) + 1
Pages(total, pageSize) == (LastOffset(total) \div pageSize) + 1

\* if (pageNum > pages) pageNum = pages
ClampPageNum(pageNum, pages) == IF pageNum > pages THEN pages ELSE pageNum

\* page() ends without a return statement: the caller gets undefined, here
\* the empty sequence (a returned object would be a sequence of one record)
PageReturn(total, pages, pageNum) == <<>>

\* --------------------------------------------------------------- history
\* op/key/val/lab: the call and its arguments or its result; rkey: the key push
\* returned or the key of the row pop/shift deleted; err: the call threw;
\* expect: what pop/shift return by `model`; again: the call before was the
\* same set(key, value), or was tags(key, lab) on an existing key before tags(key)
Op(op, key, val, lab, rkey, err, expect, again) ==
  [op |-> op, key |-> key, val |-> val, lab |-> lab, rkey |-> rkey, err |-> err,
   expect |-> expect, again |-> again]

\* the history of a call of page(): its arguments (req, size, tags, operator),
\* the locals total, pages and pageNum at its end, and what it returned
PageOp(name, req, size, tags, operator, err, total, pages, pageNum, ret) ==
  [op |-> "page", key |-> name, val |-> Undefined, lab |-> Null, rkey |-> <<>>, err |-> err,
   expect |-> Undefined, again |-> FALSE, req |-> req, size |-> size, tags |-> tags,
   operator |-> operator, total |-> total, pages |-> pages, pageNum |-> pageNum, ret |-> ret]

\* the history of a call of all(): the rows it returned, in order
AllOp(name, rows) ==
  [op |-> "all", key |-> name, val |-> Undefined, lab |-> Null, rkey |-> <<>>, err |-> FALSE,
   expect |-> Undefined, again |-> FALSE, rows |-> rows]

NoKey == <<>>

EmptyModel == [n \in ListNames |-> <<>>]

\* track: "push" only pushes so far, "shift" pushes and shifts, "pop" pushes and
\* pops, "mixed" pushes, pops and shifts, "off" some list member was written by
\* set or deleted by expire (model is then no longer kept)
AfterShift(t) == IF t \in {"push", "shift"} THEN "shift" ELSE IF t = "off" THEN "off" ELSE "mixed"
AfterPop(t) == IF t \in {"push", "pop"} THEN "pop" ELSE IF t = "off" THEN "off" ELSE "mixed"

\* a caller is a connection to the database file: callers 1 and 2 are two
\* stores opened on one file, caller Self alone is one store
Callers == { 1, 2 }
Self == 1

\* pc: "idle" no call yet, "inserted" between the INSERT and the UPDATE of set,
\* "selected" between the SELECT and the DELETE of pop/shift, "done" returned
Call(pc, op, key, value, time, item, changes, ret) ==
  [pc |-> pc, op |-> op, key |-> key, value |-> value, time |-> time, item |-> item,
   changes |-> changes, ret |-> ret]

NoCalls == [c \in Callers |-> Call("idle", "none", NoKey, Undefined, 0, NoRow, 0, Undefined)]

Returned(c) == calls[c].pc \in {"idle", "done"}

IsListKey(key) == \E n \in ListNames : StartsWith(key, n \o <<":">>)

\* ------------------------------------------------------------------ Init
\* the file is either fresh (makeDB) or holds one row written at time 0;
\* the constructor ends with one call of expire()
InitFiles == { {}, { Row(1, <<"k">>, "v", Null, 0, 0) } }

Construct ==
  /\ expireTimeMs \in ExpireInputs
  /\ now \in Clock(0)
  /\ \E file \in InitFiles :
       /\ db = ExpireRows(file, expireTimeMs, now)
       /\ nextId = Cardinality(file) + 1
  /\ last = Op("new", NoKey, Undefined, Null, NoKey, FALSE, Undefined, FALSE)
  /\ model = EmptyModel
  /\ calls = NoCalls

\* the whole store; the per-list history `model` is kept only under SpecList
Init == Construct /\ track = "off"

\* the list layer is checked on a store constructed without expireTimeMs
InitList == Construct /\ expireTimeMs = Absent /\ track = "push"

\* --------------------------------------------------------------- actions
Set(key, value, time) ==
  /\ now' = time
  /\ db' = SetRows(db, nextId, time, key, value)
  /\ nextId' = IdAfterSet(db, nextId, key)
  /\ last' = Op("set", key, value, Null, NoKey, FALSE, Undefined,
                last.op = "set" /\ last.key = key /\ last.val = value)
  /\ track' = IF IsListKey(key) THEN "off" ELSE track
  /\ model' = IF track' = "off" THEN EmptyModel ELSE model
  /\ UNCHANGED <<expireTimeMs, calls>>

Get(key) ==
  /\ last' = Op("get", key, GetValue(db, key), Null, NoKey, FALSE, Undefined, FALSE)
  /\ UNCHANGED <<db, nextId, now, expireTimeMs, model, track, calls>>

Push(name, value, time) ==
  /\ now' = time
  /\ LET key == PushKey(name, nextId)
     IN /\ db' = SetRows(db, nextId, time, key, value)
        /\ nextId' = IdAfterSet(db, nextId, key)
        /\ last' = Op("push", name, value, Null, key, FALSE, Undefined, FALSE)
  /\ model' = IF track # "off" THEN [model EXCEPT ![name] = Append(@, value)] ELSE model
  /\ UNCHANGED <<expireTimeMs, track, calls>>

Pop(name) ==
  /\ LET item == PopSelect(db, name)
     IN /\ db' = DeleteById(db, item)
        /\ last' = Op("pop", name, item.value, Null, item.key, FALSE,
                      IF model[name] = <<>> THEN Undefined ELSE model[name][Len(model[name])],
                      FALSE)
  /\ model' = IF model[name] # <<>> THEN [model EXCEPT ![name] = SubSeq(@, 1, Len(@) - 1)] ELSE model
  /\ track' = AfterPop(track)
  /\ UNCHANGED <<nextId, now, expireTimeMs, calls>>

Shift(name) ==
  /\ LET item == ShiftSelect(db, name)
     IN /\ db' = DeleteById(db, item)
        /\ last' = Op("shift", name, item.value, Null, item.key, FALSE,
                      IF model[name] = <<>> THEN Undefined ELSE Head(model[name]), FALSE)
  /\ model' = IF model[name] # <<>> THEN [model EXCEPT ![name] = Tail(@)] ELSE model
  /\ track' = AfterShift(track)
  /\ UNCHANGED <<nextId, now, expireTimeMs, calls>>

TagsGet(key) ==
  /\ LET after == last.op = "setTags" /\ last.key = key /\ ~last.err
     IN last' = IF GetLabelsThrows(db, key)
                  THEN Op("tags", key, Undefined, Null, NoKey, TRUE, Undefined, after)
                  ELSE Op("tags", key, Undefined, GetLabels(db, key), NoKey, FALSE,
                          IF after THEN last.lab ELSE Undefined, after)
  /\ UNCHANGED <<db, nextId, now, expireTimeMs, model, track, calls>>

TagsSet(key, tags, time) ==
  /\ now' = time
  /\ db' = UpdateLabels(db, tags, time, key)
  /\ last' = Op("setTags", key, Undefined, tags, NoKey, SetLabelsThrows(db, key), Undefined, FALSE)
  /\ UNCHANGED <<nextId, expireTimeMs, model, track, calls>>

Expire(time) ==
  /\ now' = IF ExpireDisabled(expireTimeMs) THEN now ELSE time
  /\ db' = ExpireRows(db, expireTimeMs, time)
  /\ last' = Op("expire", NoKey, Undefined, Null, NoKey, FALSE, Undefined, FALSE)
  /\ track' = IF \E r \in db \ db' : IsListKey(r.key) THEN "off" ELSE track
  /\ model' = IF track' = "off" THEN EmptyModel ELSE model
  /\ UNCHANGED <<nextId, expireTimeMs, calls>>

\* ---- the public methods statement by statement
\* set, lines 26-27: const time = Date.now(); insertStmt.run(time, time, key, value)
SetInsert(c, key, value, time) ==
  /\ Returned(c)
  /\ now' = time
  /\ db' = InsertOrIgnore(db, nextId, time, key, value)
  /\ nextId' = IdAfterSet(db, nextId, key)
  /\ calls' = [calls EXCEPT ![c] = Call("inserted", "set", key, value, time, NoRow,
                                        IF KeyConflict(db, key) THEN 0 ELSE 1, Undefined)]
  /\ last' = Op("insert", key, value, Null, NoKey, FALSE, Undefined, FALSE)
  /\ UNCHANGED <<expireTimeMs, model, track>>

\* set, line 28: updateStmt.run(value, time, key)
SetUpdate(c) ==
  /\ calls[c].pc = "inserted"
  /\ db' = UpdateValue(db, calls[c].value, calls[c].time, calls[c].key)
  /\ calls' = [calls EXCEPT ![c].pc = "done"]
  /\ last' = Op("update", calls[c].key, calls[c].value, Null, NoKey, FALSE, Undefined, FALSE)
  /\ UNCHANGED <<nextId, now, expireTimeMs, model, track>>

\* pop, line 47 / shift, line 55: const item = selectStmt.get(name)
RemoveSelect(c, op, name) ==
  /\ Returned(c)
  /\ LET item == IF op = "pop" THEN PopSelect(db, name) ELSE ShiftSelect(db, name)
     IN calls' = [calls EXCEPT ![c] = Call("selected", op, name, Undefined, 0, item, 0, Undefined)]
  /\ last' = Op("select", name, Undefined, Null, NoKey, FALSE, Undefined, FALSE)
  /\ UNCHANGED <<db, nextId, now, expireTimeMs, model, track>>

\* pop, lines 48-49 / shift, lines 56-57: if (item?.id) deleteStmt.run(item.id);
\* return item?.value
RemoveDelete(c) ==
  /\ calls[c].pc = "selected"
  /\ db' = DeleteById(db, calls[c].item)
  /\ calls' = [calls EXCEPT ![c].pc = "done", ![c].ret = calls[c].item.value,
                              ![c].changes = Cardinality(db \ db')]
  /\ last' = Op(calls[c].op, calls[c].key, calls[c].item.value, Null, calls[c].item.key, FALSE,
                Undefined, FALSE)
  /\ UNCHANGED <<nextId, now, expireTimeMs, model, track>>

\* a timer that could fire in the middle of a method
SweepAnytime == TRUE

\* the callback of setInterval runs from the event loop, when no method of the
\* store, all of them synchronous, is on the stack
SweepMayRun == Returned(Self)

TimerExpire(time) == SweepMayRun /\ Expire(time)

All(name) ==
  /\ \E rows \in AllResults(db, name) : last' = AllOp(name, rows)
  /\ UNCHANGED <<db, nextId, now, expireTimeMs, model, track, calls>>

Page(name, pageNum, pageSize, tags, operator) ==
  /\ last' = IF PageThrows(tags)
               THEN PageOp(name, pageNum, pageSize, tags, operator, TRUE, 0, 0, pageNum, <<>>)
               ELSE LET total == PageTotal(db, name)
                        pages == Pages(total, pageSize)
                        num == ClampPageNum(pageNum, pages)
                    IN PageOp(name, pageNum, pageSize, tags, operator, FALSE, total, pages, num,
                              PageReturn(total, pages, num))
  /\ UNCHANGED <<db, nextId, now, expireTimeMs, model, track, calls>>

\* keys a caller can hold: fixed ones, the keys in the table, and the key of
\* the list member the last call pushed or removed
KeyInputs == PlainKeys \cup { r.key : r \in db } \cup ({ last.rkey } \ { NoKey })

\* the model stops inserting after MaxInserts rows
Next ==
  \/ \E k \in KeyInputs, v \in Values, t \in Clock(now) : nextId <= MaxInserts /\ Set(k, v, t)
  \/ \E k \in KeyInputs : Get(k)
  \/ \E n \in Names, v \in Values, t \in Clock(now) : nextId <= MaxInserts /\ Push(n, v, t)
  \/ \E n \in Names : Pop(n)
  \/ \E n \in Names : Shift(n)
  \/ \E k \in KeyInputs : TagsGet(k)
  \/ \E k \in KeyInputs, t \in TagInputs, u \in Clock(now) : TagsSet(k, t, u)
  \/ \E t \in Clock(now) : Expire(t)

Spec == Init /\ [][Next]_vars

\* the clock reading of the next firing of the interval timer: time has passed
\* since the last reading, up to the horizon of the model
TimerTime == IF now < MaxTime THEN now + 1 ELSE MaxTime

\* setInterval(() => { this.expire(); }, 1000)
Sweep == Expire(TimerTime)

\* the calls that write or delete rows, and expire() called directly or by the
\* timer, of which Sweep is the firing that comes after time has passed
NextLive ==
  \/ \E k \in KeyInputs, v \in Values, t \in Clock(now) : nextId <= MaxInserts /\ Set(k, v, t)
  \/ \E n \in Names, v \in Values, t \in Clock(now) : nextId <= MaxInserts /\ Push(n, v, t)
  \/ \E n \in Names : Pop(n)
  \/ \E k \in KeyInputs, t \in TagInputs, u \in Clock(now) : TagsSet(k, t, u)
  \/ \E t \in Clock(now) : Expire(t)

\* the store with a timer that keeps firing
SpecLive == Init /\ [][NextLive]_vars /\ WF_vars(Sweep)

\* two stores on one file, no expiry: their statements interleave
InitConc == Init /\ expireTimeMs = Absent

NextConc ==
  \/ \E c \in Callers, k \in PlainKeys, v \in Values, t \in Clock(now) :
       nextId <= MaxInserts /\ SetInsert(c, k, v, t)
  \/ \E c \in Callers, n \in Names, v \in Values :
       nextId <= MaxInserts /\ SetInsert(c, PushKey(n, nextId), v, now)
  \/ \E c \in Callers : SetUpdate(c)
  \/ \E c \in Callers, op \in {"pop", "shift"}, n \in Names : RemoveSelect(c, op, n)
  \/ \E c \in Callers : RemoveDelete(c)

SpecConc == InitConc /\ [][NextConc]_vars

\* one store, statement by statement, and its timer
NextSweep ==
  \/ \E k \in PlainKeys, v \in Values, t \in Clock(now) :
       nextId <= MaxInserts /\ SetInsert(Self, k, v, t)
  \/ \E n \in Names, v \in Values, t \in Clock(now) :
       nextId <= MaxInserts /\ SetInsert(Self, PushKey(n, nextId), v, t)
  \/ SetUpdate(Self)
  \/ \E op \in {"pop", "shift"}, n \in Names : RemoveSelect(Self, op, n)
  \/ RemoveDelete(Self)
  \/ \E t \in Clock(now) : TimerExpire(t)

SpecSweep == Init /\ [][NextSweep]_vars

\* the list layer alone, over list names that meet LIKE's wildcards and case folding
NextList ==
  \/ \E n \in ListNames, v \in Values : nextId <= MaxListInserts /\ Push(n, v, now)
  \/ \E n \in ListNames : Pop(n)
  \/ \E n \in ListNames : Shift(n)
  \/ \E k \in KeyInputs : Get(k)

SpecList == InitList /\ [][NextList]_vars

\* the tag accessors alone, with the empty tag string among the inputs
NextTags ==
  \/ \E k \in KeyInputs, v \in Values, t \in Clock(now) : nextId <= MaxInserts /\ Set(k, v, t)
  \/ \E k \in KeyInputs : TagsGet(k)
  \/ \E k \in KeyInputs, t \in AllTagInputs, u \in Clock(now) : TagsSet(k, t, u)

SpecTags == Init /\ [][NextTags]_vars

\* push, pop and shift on one list: every call of a behaviour names the same list
NextOne ==
  \E n \in ListNames :
    /\ last.key \in {NoKey, n}
    /\ \/ \E v \in Values : nextId <= MaxListInserts + 1 /\ Push(n, v, now)
       \/ Pop(n)
       \/ Shift(n)

SpecOne == InitList /\ [][NextOne]_vars

\* all() over lists whose members differ in createTime
NextAll ==
  \/ \E n \in OrderNames, v \in Values, t \in Clock(now) :
       nextId <= MaxListInserts /\ Push(n, v, t)
  \/ \E n \in OrderNames : Pop(n)
  \/ \E n \in OrderNames : All(n)

SpecAll == InitList /\ [][NextAll]_vars

\* page() over one list whose members carry labels
NextPage ==
  \/ \E n \in Names, v \in Values : nextId <= MaxListInserts /\ Push(n, v, now)
  \/ \E n \in Names : Shift(n)
  \/ \E k \in KeyInputs, t \in AllTagInputs : TagsSet(k, t, now)
  \/ \E n \in Names, pn \in PageNumInputs, ps \in PageSizeInputs, t \in PageTagInputs,
         o \in OperatorInputs : Page(n, pn, ps, t, o)

SpecPage == InitList /\ [][NextPage]_vars

TypeOK ==
  /\ nextId \in 1..(MaxListInserts + 1)
  /\ now \in 0..MaxTime
  /\ \A r \in db : r.id \in 1..MaxListInserts /\ r.value \in Values

\* ================================================================ claims
HasPrefix(key, name) == StartsWith(key, name \o <<":">>)

\* ---------------------------------------------------------------- C1
\* C1: FIFO order.  While only push and shift have been called, every
\* shift(name) on a list with values left returns the oldest value pushed to
\* `name` and not yet shifted, also for pushes with equal createTime.
C1_FifoOrder ==
  (last.op = "shift" /\ track = "shift" /\ last.expect # Undefined) => last.val = last.expect

\* ---------------------------------------------------------------- C2
\* C2: LIFO order.  While only push and pop have been called, every pop(name)
\* on a list with values left returns the newest value pushed to `name` and
\* not yet popped, also for pushes with equal createTime.
C2_LifoOrder ==
  (last.op = "pop" /\ track = "pop" /\ last.expect # Undefined) => last.val = last.expect

\* ---------------------------------------------------------------- C3
\* C3: prefix isolation.  The rows pop, shift and all treat as members of
\* list b are exactly the rows whose key starts with b followed by ':'; the
\* key push(a, v) returned is no member of any other list b; the row a
\* pop(b) or shift(b) deleted has a key that starts with b followed by ':'.
C3_PrefixIsolation ==
  /\ \A b \in ListNames : \A r \in db : (r \in Members(db, b)) <=> HasPrefix(r.key, b)
  /\ last.op = "push" =>
       \A b \in ListNames \ { last.key } : \A r \in Members(db, b) : r.key # last.rkey
  /\ (last.op \in {"pop", "shift"} /\ last.rkey # NoKey) => HasPrefix(last.rkey, last.key)

\* ---------------------------------------------------------------- C4
KeyUnique == \A r1 \in db : \A r2 \in db : r1.key = r2.key => r1 = r2

Later(t1, t2) == IF t1 >= t2 THEN t1 ELSE t2

\* the step is the second of two calls set(k, v) in a row; `now` is the first
\* call's timestamp and now' the second's
SecondSet == last.op = "set" /\ last'.op = "set" /\ last'.again

\* C4: upsert idempotence.  After set(k, v) was called twice there is exactly
\* one row with key k, its value is v and its updateTime is the later of the
\* two timestamps; no step leaves two rows with one key.
C4_UpsertIdempotent ==
  [][ /\ KeyUnique'
      /\ SecondSet =>
           /\ Cardinality({ r \in db' : r.key = last'.key }) = 1
           /\ \A r \in db' : r.key = last'.key =>
                r.value = last'.val /\ r.updateTime = Later(now, now') ]_vars

\* a second set(k, v) has run at a later instant than the first
C4_Witness ==
  /\ last.op = "set" /\ last.again
  /\ \E r \in db : r.key = last.key /\ r.createTime < r.updateTime

\* ---------------------------------------------------------------- C5
AllKeys == PlainKeys \cup { PushKey(n, i) : n \in Names, i \in 1..(MaxInserts + 1) }

\* C5: get reflects the table.  get(k) returns the value of the row with key
\* k, or undefined when there is none, and changes nothing; after set(k, v)
\* and after k = push(name, v), get(k) returns v; what get(k) returns changes
\* only by a set or push of k, a pop, a shift or an expire.
C5_GetReflects ==
  [][ /\ last'.op = "get" =>
           /\ db' = db
           /\ ~last'.err
           /\ \A r \in db : r.key = last'.key => last'.val = r.value
           /\ (\A r \in db : r.key # last'.key) => last'.val = Undefined
      /\ last'.op = "set" => GetValue(db', last'.key) = last'.val
      /\ last'.op = "push" => GetValue(db', last'.rkey) = last'.val
      /\ \A k \in AllKeys :
           GetValue(db', k) # GetValue(db, k) =>
             \/ last'.op = "set" /\ last'.key = k
             \/ last'.op = "push" /\ last'.rkey = k
             \/ last'.op \in {"pop", "shift", "expire"} ]_vars

\* get(k) has returned the value of the list member with key k while the
\* table holds another row with another value
C5_Witness ==
  /\ last.op = "get" /\ last.val \in Values
  /\ \E n \in Names : HasPrefix(last.key, n)
  /\ \E r \in db : r.key # last.key /\ r.value # last.val

\* ---------------------------------------------------------------- C6
\* C6: pop and shift on an empty list.  When no value pushed to `name` is
\* left, pop(name) and shift(name) return undefined and delete no row.
C6_EmptyListNoop ==
  (last.op \in {"pop", "shift"} /\ track # "off" /\ last.expect = Undefined) =>
    (last.val = Undefined /\ last.rkey = NoKey)

\* ---------------------------------------------------------------- C7
\* C7: tag round trip.  tags(k) right after tags(k, x) on an existing key
\* returns x; tags(k) throws when no row has key k; tags(k) on an existing
\* key does not throw and returns a string.
C7_TagRoundTrip ==
  last.op = "tags" =>
    /\ (last.again /\ ~last.err) => last.lab = last.expect
    /\ (\A r \in db : r.key # last.key) => last.err
    /\ (\E r \in db : r.key = last.key) => (~last.err /\ last.lab # Null)

\* ---------------------------------------------------------------- C8
\* C8: tags(key, t) on a key without a row throws and leaves every row as
\* it was, creating none.
C8_SetTagsMissingKey ==
  [][ (last'.op = "setTags" /\ \A r \in db : r.key # last'.key) =>
        (last'.err /\ db' = db) ]_vars

\* tags(key, t) has thrown while the table holds a row of another key
C8_Witness ==
  /\ last.op = "setTags" /\ last.err
  /\ \E r \in db : r.key # last.key

\* ---------------------------------------------------------------- C9
\* C9: expiry correctness.  With expireTimeMs = E supplied, expire() at time
\* now' leaves no row with updateTime <= now' - E and keeps every other row
\* as it was.
C9_ExpiryCorrect ==
  [][ (last'.op = "expire" /\ expireTimeMs # Absent) =>
        /\ \A r \in db' : r.updateTime > now' - expireTimeMs
        /\ \A r \in db : r.updateTime > now' - expireTimeMs => r \in db'
        /\ db' \subseteq db ]_vars

\* ---------------------------------------------------------------- C10
\* C10: expiry is disabled exactly when expireTimeMs is absent.  Without
\* expireTimeMs expire() deletes nothing; with any E >= 0 supplied expire()
\* deletes exactly the rows with updateTime <= now' - E.
C10_DisabledIffAbsent ==
  [][ last'.op = "expire" =>
        IF expireTimeMs = Absent
          THEN db' = db
          ELSE db' = { r \in db : r.updateTime > now' - expireTimeMs } ]_vars

\* ---------------------------------------------------------------- C11
\* the members of list `name` by the naming convention
ListRows(rows, name) == { r \in rows : HasPrefix(r.key, name) }

\* C11: page count and clamp.  For page size P >= 1 and T members, page()
\* computes pages with (pages - 1) * P < T <= pages * P when T > 0 and
\* pages = 1 when T = 0, and the page number after the clamp is in 1..pages.
C11_PageCountAndClamp ==
  (last.op = "page" /\ ~last.err /\ last.size >= 1) =>
    LET T == Cardinality(ListRows(db, last.key))
    IN /\ last.total = T
       /\ T = 0 => last.pages = 1
       /\ T > 0 => ((last.pages - 1) * last.size < T /\ T <= last.pages * last.size)
       /\ last.pageNum \in 1..last.pages

\* ---------------------------------------------------------------- C12
\* C12: page() returns {items, total, pages, pageNum}: total the number of
\* members, pages and pageNum the computed count and the clamped number, items
\* at most pageSize members, as many as the list has from offset
\* (pageNum - 1) * pageSize on.
C12_PageResult ==
  (last.op = "page" /\ ~last.err /\ last.size >= 1 /\ last.req >= 1) =>
    /\ Len(last.ret) = 1
    /\ LET T == Cardinality(ListRows(db, last.key))
           rest == T - (last.pageNum - 1) * last.size
       IN /\ last.ret[1].total = T
          /\ last.ret[1].pages = last.pages
          /\ last.ret[1].pageNum = last.pageNum
          /\ Len(last.ret[1].items) = (IF rest < last.size THEN rest ELSE last.size)
          /\ \A i \in DOMAIN last.ret[1].items : last.ret[1].items[i] \in ListRows(db, last.key)

\* ---------------------------------------------------------------- C20
RECURSIVE Contains(_, _)
\* tag is a substring of labels
Contains(labels, tag) ==
  \/ StartsWith(labels, tag)
  \/ labels # <<>> /\ Contains(Tail(labels), tag)

TagMatch(r, tags, operator) ==
  IF operator = "OR"
    THEN \E i \in DOMAIN tags : r.labels # Null /\ Contains(r.labels, tags[i])
    ELSE \A i \in DOMAIN tags : r.labels # Null /\ Contains(r.labels, tags[i])

\* C20: tag filter.  Without tags total counts every member of the list; with
\* tags page() does not throw and total counts the members whose labels hold
\* every tag (AND) or some tag (OR), members without labels matching none.
C20_TagFilter ==
  last.op = "page" =>
    IF last.tags = <<>>
      THEN ~last.err /\ last.total = Cardinality(ListRows(db, last.key))
      ELSE /\ ~last.err
           /\ last.total =
                Cardinality({ r \in ListRows(db, last.key) : TagMatch(r, last.tags, last.operator) })

\* ---------------------------------------------------------------- C13
\* C13: all(name) returns one entry {createTime, updateTime, key, value} for
\* every row whose key starts with name followed by ':' and no other entry, in
\* descending createTime, the empty sequence for an empty list, and changes no
\* row.
C13_AllMembers ==
  [][ last'.op = "all" =>
        LET got == last'.rows
            m == ListRows(db, last'.key)
        IN /\ db' = db
           /\ Len(got) = Cardinality(m)
           /\ { got[i] : i \in DOMAIN got } = { AllColumns(r) : r \in m }
           /\ \A i \in DOMAIN got : \A j \in DOMAIN got :
                i < j => got[i].createTime >= got[j].createTime ]_vars

\* ---------------------------------------------------------------- C14
RECURSIVE ValuesById(_)
\* the values of a set of rows in ascending id
ValuesById(rows) ==
  IF rows = {} THEN <<>>
  ELSE LET r == CHOOSE x \in rows : \A q \in rows : q.id >= x.id
       IN <<r.value>> \o ValuesById(rows \ {r})

\* the rows push(name, ...) inserted and nothing removed since
PushedRows(rows, name) == { r \in rows : r.key = PushKey(name, r.id) }

\* C14: in a run of push, pop and shift on one list (any name, run one after
\* another) every push adds one row whose id is above every member's, shift
\* returns the value of and removes exactly the member of smallest id, pop the
\* member of largest id, nothing else changes, and the members read by id are
\* the pushed values still present in push order.
C14_InterleavedOrder ==
  [][ LET n == last'.key
          m == ListRows(db, n)
      IN /\ last'.op = "push" =>
              \E r \in db' \ db : /\ db' = db \cup {r}
                                  /\ r.value = last'.val
                                  /\ \A q \in m : q.id < r.id
         /\ (last'.op = "shift" /\ m # {}) =>
              \E r \in m : /\ \A q \in m : r.id <= q.id
                           /\ last'.val = r.value
                           /\ db' = db \ {r}
         /\ (last'.op = "pop" /\ m # {}) =>
              \E r \in m : /\ \A q \in m : r.id >= q.id
                           /\ last'.val = r.value
                           /\ db' = db \ {r}
         /\ (last'.op \in {"pop", "shift"} /\ m = {}) =>
              (last'.val = Undefined /\ db' = db)
         /\ ValuesById(ListRows(db', n)) = model'[n]
    ]_vars

\* a push after a shift and a pop, with a member pushed before them still there
C14_Witness ==
  /\ track = "mixed"
  /\ last.op = "push"
  /\ Len(model[last.key]) >= 2

\* ---------------------------------------------------------------- C19
\* the row of `rows` with the id of r
SameId(rows, r) == { q \in rows : q.id = r.id }

\* C19: createTime is write-once.  A row that a step keeps has the key and the
\* createTime it had; a row that a step adds was added by set or push and its
\* createTime is the time that call read; set changes only value and
\* updateTime, and only of the row of its key; tags(key, t) changes only labels
\* and updateTime, and only of the row of its key; updateTime >= createTime in
\* every row.
C19_CreateTimeWriteOnce ==
  [][ /\ \A r \in db' :
           /\ r.updateTime >= r.createTime
           /\ \A q \in SameId(db, r) : q.key = r.key /\ q.createTime = r.createTime
           /\ SameId(db, r) = {} =>
                (last'.op \in {"set", "push"} /\ r.createTime = now' /\ r.updateTime = now')
      /\ last'.op = "set" =>
           \A q \in db : \E r \in SameId(db', q) :
              /\ r.labels = q.labels
              /\ q.key # last'.key => r = q
              /\ q.key = last'.key => (r.value = last'.val /\ r.updateTime = now')
      /\ last'.op = "setTags" =>
           \A q \in db : \E r \in SameId(db', q) :
              /\ r.value = q.value
              /\ q.key # last'.key => r = q
              /\ q.key = last'.key => (r.labels = last'.lab /\ r.updateTime = now')
    ]_vars

\* a set on an existing key at a later time: updateTime has moved, createTime not
C19_Witness ==
  /\ last.op = "set"
  /\ \E r \in db : r.key = last.key /\ r.updateTime > r.createTime /\ r.updateTime = now

\* ---------------------------------------------------------------- C18
ExpireEnabled == expireTimeMs # Absent /\ expireTimeMs > 0

\* some row of the store has updateTime u
RowAt(u) == \E r \in db : r.updateTime = u

\* C18: with expireTimeMs = E > 0, no row that is already E old is left when
\* the constructor returns, and under a timer that keeps firing every row whose
\* updateTime u gets E into the past within the horizon of the clock
\* (u + E <= MaxTime) eventually is deleted or updated: from any state with rows
\* of updateTime u, a state with no such row is reached.
C18_EventualExpiry ==
  /\ [](last.op = "new" =>
          (ExpireEnabled => \A r \in db : r.updateTime > now - expireTimeMs))
  /\ \A u \in 0..MaxTime :
       (ExpireEnabled /\ u + expireTimeMs <= MaxTime /\ RowAt(u)) ~> ~RowAt(u)

\* the sweep has emptied a store that held rows
C18_Witness ==
  /\ ExpireEnabled
  /\ last.op = "expire"
  /\ nextId > 1
  /\ now >= expireTimeMs
  /\ db = {}

\* ---------------------------------------------------------------- C15
Removed(c) == calls[c].pc = "done" /\ calls[c].op \in {"pop", "shift"} /\ calls[c].item.id # 0

\* C15: no row is returned to two callers of pop/shift: two calls that have
\* returned a value did not return the same row.
C15_ExactlyOnce ==
  \A c \in Callers : \A d \in Callers :
    (c # d /\ Removed(c) /\ Removed(d)) => calls[c].item.id # calls[d].item.id

\* ---------------------------------------------------------------- C16
KeyRows(rows, key) == { r \in rows : r.key = key }

SetDone(c, key) == calls[c].pc = "done" /\ calls[c].op = "set" /\ calls[c].key = key

\* C16: set(k, v1) and set(k, v2) on a key k that no pop or shift removes, with
\* their statements interleaved.  An INSERT
\* on a key that has a row changes nothing, otherwise it adds the one row of the
\* key with the call's time as createTime; an UPDATE leaves exactly one row of
\* the key, with the value of that update and the id and createTime it had;
\* when both calls have returned, at most one of their INSERTs took effect and
\* the row's createTime is that call's time.
C16_ConcurrentSet ==
  [][ \A c \in Callers : calls'[c].key \in PlainKeys =>
        LET k == calls'[c].key
            before == KeyRows(db, k)
            after == KeyRows(db', k)
        IN /\ (calls'[c].pc = "inserted" /\ calls'[c] # calls[c]) =>
                /\ Cardinality(after) = 1
                /\ before # {} => (db' = db /\ calls'[c].changes = 0)
                /\ before = {} => /\ calls'[c].changes = 1
                                  /\ \A r \in after : r.createTime = calls'[c].time
           /\ (calls[c].pc = "inserted" /\ calls'[c].pc = "done") =>
                /\ Cardinality(after) = 1
                /\ \A r \in after :
                     /\ r.value = calls[c].value
                     /\ \E q \in before : q.id = r.id /\ q.createTime = r.createTime
                /\ \A d \in Callers \ {c} : SetDone(d, k) =>
                     /\ calls[c].changes + calls[d].changes <= 1
                     /\ \A r \in after :
                          /\ r.value \in {calls[c].value, calls[d].value}
                          /\ calls[c].changes = 1 => r.createTime = calls[c].time
                          /\ calls[d].changes = 1 => r.createTime = calls[d].time
    ]_vars

\* both calls have returned; caller 1 inserted the row, then caller 2 ran its
\* INSERT and its UPDATE, then caller 1 its UPDATE: caller 1's value and time
C16_Witness ==
  \E k \in PlainKeys :
    /\ SetDone(1, k) /\ SetDone(2, k)
    /\ calls[1].value # calls[2].value
    /\ calls[1].changes = 1
    /\ calls[1].time < calls[2].time
    /\ \E r \in db : r.key = k /\ r.value = calls[1].value /\ r.createTime = calls[1].time

\* ---------------------------------------------------------------- C17
\* C17: the timer's expire() runs only between the methods of its store: a
\* sweep step starts with no call in progress; when set(k, v) returns, the row
\* of k is there with value v; when pop/shift returns a value, its DELETE
\* removed the row it had selected.
C17_SweepBetweenCalls ==
  [][ /\ last'.op = "expire" => Returned(Self)
      /\ (calls[Self].pc = "inserted" /\ calls'[Self].pc = "done") =>
           \E r \in db' : r.key = calls[Self].key /\ r.value = calls[Self].value
      /\ (calls[Self].pc = "selected" /\ calls'[Self].pc = "done" /\ calls[Self].item.id # 0) =>
           /\ calls[Self].item \in db
           /\ db' = db \ { calls[Self].item }
    ]_vars

\* a set has returned at time 0, the sweep of an expiring store has run after
\* it at time 1 and the store is empty
C17_Witness ==
  /\ ExpireEnabled
  /\ calls[Self].pc = "done" /\ calls[Self].op = "set"
  /\ last.op = "expire"
  /\ calls[Self].time < now
  /\ db = {}

====
